---------------------------- MODULE Spec2Model ----------------------------
(***************************************************************************)
(* FEAST_PtE: the site level, survey based detection method SiteSurvey     *)
(* (feast/DetectionModules/site_survey.py) driven by the time-stepped      *)
(* simulation loop.                                                        *)
(*                                                                         *)
(* Units.  Times are counted in hours: delta_t = 12 stands for the float   *)
(* 0.5 (days), ophrs keeps its hour integers.  Floats of the constructor   *)
(* are exact rationals [n, d] with d >= 0; d = 0 stands for the IEEE       *)
(* values +inf (n > 0), -inf (n < 0) and nan (n = 0).  Probabilities and   *)
(* uniform draws are counted in units of 1/ProbOne.  Costs are integers.   *)
(*                                                                         *)
(* The DetectionMethod base class, Time and the Emission store, which      *)
(* site_survey.py calls, follow the design specification's description.    *)
(***************************************************************************)
EXTENDS Integers, Sequences, FiniteSets, TLC

\* ------------------------------------------------------------------ bounds
NSites == 2          \* sites of the gas field, indexed 0..NSites-1
MaxQueue == 3        \* longest site_queue explored
MaxEm == 1           \* most entries of the Emission store (n_em)
ProbOne == 2         \* probabilities and draws are counted in units of 1/ProbOne

\* --------------------------------------------------------- program values
HoursPerDay == 24    \* the "/ 24" of work_time
EndTime == 48        \* time.end_time: a run of two days
None == 0 - 1        \* Python's None where an integer may stand

Sites == 0 .. (NSites - 1)
AllSites == [i \in 1 .. NSites |-> i - 1]      \* every site, in index order

\* ----------------------------------------------------- constructor inputs
\* detection_probability_points (flux sums) and detection_probabilities
StepTable == [points |-> <<0, 1>>, probs |-> <<0, ProbOne>>]
HalfTable == [points |-> <<0, 1>>, probs |-> <<1, 1>>]
FullDay == [begin |-> 0, end |-> 24]
DayShift == [begin |-> 6, end |-> 18]
NoShift == [begin |-> 12, end |-> 12]
NightShift == [begin |-> 18, end |-> 6]

Arguments(dt, hrs, interval, spd, table, queue) ==
    [delta_t |-> dt, ophrs |-> hrs, survey_interval |-> interval,
     sites_per_day |-> spd, site_cost |-> 3, detection |-> table,
     site_queue |-> queue]

\* the configurations whose runs are explored step by step
Scenarios ==
    { Arguments(24, FullDay, None, NSites, StepTable, AllSites),
      Arguments(24, FullDay, 2, 1, HalfTable, AllSites),
      Arguments(18, DayShift, None, 2, StepTable, << >>),
      Arguments(18, NoShift, None, 1, StepTable, AllSites),
      Arguments(24, NoShift, None, 1, StepTable, AllSites),
      Arguments(18, FullDay, None, 1, HalfTable, AllSites),
      Arguments(18, NightShift, None, 1, StepTable, AllSites) }

\* the table of configurations the constructor alone is run on
SitesPerDays == {0, 1, 2, 3, 50}
DeltaTs == {6, 12, 18, 24, 36, 48}
OphrsSet == {FullDay, DayShift, NoShift, NightShift, [begin |-> 8, end |-> 17]}
Constructions ==
    { Arguments(dt, hrs, None, spd, StepTable, << >>) :
        dt \in DeltaTs, hrs \in OphrsSet, spd \in SitesPerDays }

\* ------------------------------------------------------------- sequences
SeqsUpTo(S, n) == UNION { [1 .. k -> S] : k \in 0 .. n }
Range(s) == { s[i] : i \in DOMAIN s }
Take(s, n) == SubSeq(s, 1, n)
Drop(s, n) == SubSeq(s, n + 1, Len(s))
Min2(a, b) == IF a <= b THEN a ELSE b
Max2(a, b) == IF a >= b THEN a ELSE b

\* ------------------------------------------------- float arithmetic (exact)
Rat(n, d) == IF d < 0 THEN [n |-> 0 - n, d |-> 0 - d] ELSE [n |-> n, d |-> d]
IsNaN(x) == x.d = 0 /\ x.n = 0
\* a / b on numpy floats: x / 0 is inf, 0 / 0 is nan (a warning, no exception)
FDiv(a, b) == Rat(a.n * b.d, a.d * b.n)
\* np.min([1, x]): nan propagates; +inf gives 1
FMin1(x) == IF IsNaN(x) THEN x
            ELSE IF x.d = 0 THEN (IF x.n > 0 THEN Rat(1, 1) ELSE x)
            ELSE IF x.n < x.d THEN x ELSE Rat(1, 1)
FAddInt(k, x) == IF x.d = 0 THEN x ELSE Rat(k * x.d + x.n, x.d)
FMulInt(k, x) == Rat(k * x.n, x.d)
\* int(x) truncates toward zero
TruncDiv(n, d) == IF n >= 0 THEN n \div d ELSE 0 - ((0 - n) \div d)
FloorDiv(n, d) == n \div d

\* ------------------------------------------------------------------ state
VARIABLES
    pc,                  \* "new": constructor arguments chosen, __init__ not run;
                         \* "step": a time step has begun; "stepped": detect has
                         \* returned in this step; "done"; "error": __init__ raised
    time,                \* the Time object: delta_t (hours) and time_index
    ophrs,               \* self.ophrs
    survey_interval,     \* self.survey_interval
    sites_per_day,       \* self.sites_per_day
    site_cost,           \* self.site_cost
    det_table,           \* self.detection_probability_points / _probabilities
    sites_per_timestep,  \* self.sites_per_timestep
    warned,              \* the WARNING line of __init__ was printed
    site_queue,          \* self.site_queue
    find_cost,           \* the cost accumulator, indexed by time_index
    emissions,           \* the Emission store
    ever_queued,         \* history: every site that has been in site_queue
    last,                \* history: the last call, its arguments and its effects
    \* two SiteSurvey objects stepped by one simulation
    methods,             \* per object: the list its site_queue refers to, its
                         \* sites_per_timestep and its dispatch_object
    lists,               \* the list objects, by identity
    order,               \* the order in which the objects' detect is called
    turn,                \* the place in order of the next detect of this step
    sent,                \* history: the sites A has passed to B, with the step
    seen,                \* history: the sites B has surveyed, with the step
    called               \* history: the last call on either object

vars == << pc, time, ophrs, survey_interval, sites_per_day, site_cost, det_table,
           sites_per_timestep, warned, site_queue, find_cost, emissions,
           ever_queued, last, methods, lists, order, turn, sent, seen, called >>

\* the variables of the two objects, and those of the single object
pipeline == << methods, lists, order, turn, sent, seen, called >>
single == << pc, ophrs, survey_interval, sites_per_day, site_cost, det_table,
            sites_per_timestep, warned, site_queue, emissions, ever_queued, last >>

config == << time, ophrs, survey_interval, sites_per_day, site_cost, det_table >>

Infty == 999         \* np.infty, the end time of an unresolved emission

EmptyEmissions ==
    [n_em |-> 0, flux |-> << >>, site_index |-> << >>, endtime |-> << >>,
     detected |-> << >>]

\* the record kept in last; every call fills the fields it has:
\*   detect: operating (check_time held), visited (the sites surveyed), probs
\*           (their looked-up probabilities), scores (the uniform draws),
\*           dispatched (dispatch_object.action was called),
\*           flagged and emit_out (its two arguments)
\*   action: site_inds (its first argument)
Call(op) ==
    [op |-> op, operating |-> FALSE, visited |-> << >>, probs |-> << >>,
     scores |-> << >>, dispatched |-> FALSE, flagged |-> << >>, emit_out |-> << >>,
     site_inds |-> << >>]

\* ------------------------------------------------------------------- Time
NSteps(delta_t) == (EndTime + delta_t - 1) \div delta_t    \* steps of a run
current_time(t) == t.time_index * t.delta_t            \* hours
TimeOfDay(t) == current_time(t) % HoursPerDay          \* np.mod(current_time, 1)
Day(t) == current_time(t) \div HoursPerDay

\* ------------------------------------------------- DetectionMethod (base)
\* within the operating hours, read as clock bounds of the day, and on a day
\* the survey interval allows
check_time(t, hrs, interval) ==
    /\ hrs.begin <= TimeOfDay(t)
    /\ TimeOfDay(t) < hrs.end
    /\ (interval = None \/ Day(t) % interval = 0)

\* up to n sites from the front of the queue (empty operating envelope: every
\* site is eligible); the sites chosen leave the queue
choose_sites(queue, n) ==
    LET k == Max2(0, Min2(n, Len(queue))) IN
    [site_inds |-> Take(queue, k), site_queue |-> Drop(queue, k)]

extend_site_queue(queue, site_inds) == queue \o site_inds

\* the probability of the table at query q: the boundary value outside the
\* table, the table's value at a point, linear in between
RECURSIVE Interpolate(_, _, _, _)
Interpolate(points, probs, q, i) ==
    IF q <= points[i] THEN probs[i]
    ELSE IF i = Len(points) THEN probs[i]
    ELSE IF q < points[i + 1]
         THEN probs[i] + ((probs[i + 1] - probs[i]) * (q - points[i]))
                           \div (points[i + 1] - points[i])
    ELSE Interpolate(points, probs, q, i + 1)

empirical_interpolator(points, probs, q) ==
    Max2(0, Min2(ProbOne, Interpolate(points, probs, q, 1)))

\* ------------------------------------------------------ SiteSurvey.__init__
work_time(hrs) == Rat(hrs.end - hrs.begin, HoursPerDay)

\* a variant that forgets the whole days of delta_t
SitesPerTimestepFloat_nowhole(spd, hrs, delta_t) ==
    FMulInt(spd,
            FMin1(FDiv(Rat(delta_t % HoursPerDay, HoursPerDay), work_time(hrs))))

SitesPerTimestepFloat(spd, hrs, delta_t) ==
    FMulInt(spd,
            FAddInt(delta_t \div HoursPerDay,
                    FMin1(FDiv(Rat(delta_t % HoursPerDay, HoursPerDay),
                               work_time(hrs)))))

\* int() of nan or inf raises
InitRaises(spd, hrs, delta_t) == SitesPerTimestepFloat(spd, hrs, delta_t).d = 0

SitesPerTimestep(spd, hrs, delta_t) ==
    LET x == SitesPerTimestepFloat(spd, hrs, delta_t) IN TruncDiv(x.n, x.d)

\* a variant that warns whenever sites_per_timestep is at most 1
SiteSurvey_init_atmost ==
    /\ pc = "new"
    /\ IF InitRaises(sites_per_day, ophrs, time.delta_t)
       THEN /\ pc' = "error"
            /\ UNCHANGED << sites_per_timestep, warned >>
       ELSE /\ pc' = "step"
            /\ sites_per_timestep' =
                   SitesPerTimestep(sites_per_day, ophrs, time.delta_t)
            /\ warned' = (sites_per_timestep' <= 1 /\ sites_per_day > 0)
    /\ last' = Call("init")
    /\ UNCHANGED << config, site_queue, find_cost, emissions, ever_queued >>
    /\ UNCHANGED pipeline

SiteSurvey_init ==
    /\ pc = "new"
    /\ IF InitRaises(sites_per_day, ophrs, time.delta_t)
       THEN /\ pc' = "error"
            /\ UNCHANGED << sites_per_timestep, warned >>
       ELSE /\ pc' = "step"
            /\ sites_per_timestep' =
                   SitesPerTimestep(sites_per_day, ophrs, time.delta_t)
            /\ warned' = (sites_per_timestep' < 1 /\ sites_per_day > 0)
    /\ last' = Call("init")
    /\ UNCHANGED << config, site_queue, find_cost, emissions, ever_queued >>
    /\ UNCHANGED pipeline

\* no second object
NoPipeline ==
    /\ methods = << >>
    /\ lists = << >>
    /\ order = << >>
    /\ turn = 0
    /\ sent = << >>
    /\ seen = << >>
    /\ called = [op |-> "none"]

Constructing(args) ==
    /\ pc = "new"
    /\ time = [delta_t |-> args.delta_t, time_index |-> 0]
    /\ ophrs = args.ophrs
    /\ survey_interval = args.survey_interval
    /\ sites_per_day = args.sites_per_day
    /\ site_cost = args.site_cost
    /\ det_table = args.detection
    /\ site_queue = args.site_queue
    /\ sites_per_timestep = 0
    /\ warned = FALSE
    /\ find_cost = [i \in 0 .. (NSteps(args.delta_t) - 1) |-> 0]
    /\ emissions = EmptyEmissions
    /\ ever_queued = Range(site_queue)
    /\ last = Call("none")
    /\ NoPipeline

Init == \E args \in Scenarios : Constructing(args)

InitConstructions == \E args \in Constructions : Constructing(args)

\* ------------------------------------------------------------ SiteSurvey
NoneList == << None >>       \* None where a list of indexes may stand
Fluxes == {1}                \* flux of a new emission (test_helper: np.ones)
ActionArgs == SeqsUpTo(Sites, 2)
EmitArgs == {NoneList, << 0 >>}

\* emissions.site_index[:n_em] == site_ind, then np.sum(flux[cond])
RECURSIVE SiteFlux(_, _, _)
SiteFlux(em, site_ind, i) ==
    IF i > em.n_em THEN 0
    ELSE (IF em.site_index[i] = site_ind THEN em.flux[i] ELSE 0)
         + SiteFlux(em, site_ind, i + 1)

\* probs of detect_prob_curve: one looked-up probability per site of site_inds
SiteProbs(site_inds, em, table) ==
    [i \in 1 .. Len(site_inds) |->
        empirical_interpolator(table.points, table.probs,
                               SiteFlux(em, site_inds[i], 1))]

\* np.array(site_inds)[scores <= probs]
RECURSIVE Masked(_, _, _, _)
Masked(site_inds, scores, probs, i) ==
    IF i > Len(site_inds) THEN << >>
    ELSE (IF scores[i] <= probs[i] THEN << site_inds[i] >> ELSE << >>)
         \o Masked(site_inds, scores, probs, i + 1)

\* a variant that returns the positions of the flagged sites in site_inds
\* (np.where(scores <= probs)[0]) instead of the sites
detect_prob_curve_positions(site_inds, em, table, scores) ==
    LET probs == SiteProbs(site_inds, em, table)
        Pos[i \in 1 .. (Len(site_inds) + 1)] ==
            IF i > Len(site_inds) THEN << >>
            ELSE (IF scores[i] <= probs[i] THEN << i - 1 >> ELSE << >>) \o Pos[i + 1]
    IN  Pos[1]

\* a variant that flags a site only when its draw is below the probability
detect_prob_curve_strict(site_inds, em, table, scores) ==
    LET probs == SiteProbs(site_inds, em, table)
        Below[i \in 1 .. (Len(site_inds) + 1)] ==
            IF i > Len(site_inds) THEN << >>
            ELSE (IF scores[i] < probs[i] THEN << site_inds[i] >> ELSE << >>)
                 \o Below[i + 1]
    IN  Below[1]

detect_prob_curve(site_inds, em, table, scores) ==
    IF Len(site_inds) = 0 THEN site_inds
    ELSE Masked(site_inds, scores, SiteProbs(site_inds, em, table), 1)

\* a variant that charges the capacity of the step, not the sites surveyed
sites_surveyed_capacity(queue, per_step, cost, t, cost_per_site) ==
    LET n_sites == Min2(per_step, Len(queue))
        chosen == choose_sites(queue, n_sites)
    IN  [site_inds |-> chosen.site_inds,
         site_queue |-> chosen.site_queue,
         find_cost |-> [cost EXCEPT ![t.time_index] = @ + per_step * cost_per_site]]

\* a variant with np.max in place of np.min
sites_surveyed_max(queue, per_step, cost, t, cost_per_site) ==
    LET n_sites == Max2(per_step, Len(queue))
        chosen == choose_sites(queue, n_sites)
    IN  [site_inds |-> chosen.site_inds,
         site_queue |-> chosen.site_queue,
         find_cost |-> [cost EXCEPT ![t.time_index] =
                            @ + Len(chosen.site_inds) * cost_per_site]]

\* a variant that leaves the sites surveyed in the queue
sites_surveyed_kept(queue, per_step, cost, t, cost_per_site) ==
    LET n_sites == Min2(per_step, Len(queue))
        chosen == choose_sites(queue, n_sites)
    IN  [site_inds |-> chosen.site_inds,
         site_queue |-> queue,
         find_cost |-> [cost EXCEPT ![t.time_index] =
                            @ + Len(chosen.site_inds) * cost_per_site]]

\* a variant that stores the cost of the step instead of adding it
sites_surveyed_stored(queue, per_step, cost, t, cost_per_site) ==
    LET n_sites == Min2(per_step, Len(queue))
        chosen == choose_sites(queue, n_sites)
    IN  [site_inds |-> chosen.site_inds,
         site_queue |-> chosen.site_queue,
         find_cost |-> [cost EXCEPT ![t.time_index] =
                            Len(chosen.site_inds) * cost_per_site]]

sites_surveyed(queue, per_step, cost, t, cost_per_site) ==
    LET n_sites == Min2(per_step, Len(queue))
        chosen == choose_sites(queue, n_sites)
    IN  [site_inds |-> chosen.site_inds,
         site_queue |-> chosen.site_queue,
         find_cost |-> [cost EXCEPT ![t.time_index] =
                            @ + Len(chosen.site_inds) * cost_per_site]]

\* np.random.uniform(0, 1, n): n draws of the half-open interval [0, 1)
Draws(n) == [1 .. n -> 0 .. (ProbOne - 1)]

\* a variant that marks the emissions of the flagged sites as detected itself
MarkDetected(em, sites) ==
    [em EXCEPT !.detected =
        [i \in 1 .. em.n_em |-> em.detected[i] \/ em.site_index[i] \in sites]]

detect_operating_marking ==
    LET s == sites_surveyed(site_queue, sites_per_timestep, find_cost, time,
                            site_cost)
    IN  /\ site_queue' = s.site_queue
        /\ find_cost' = s.find_cost
        /\ IF Len(s.site_inds) > 0
           THEN \E scores \in Draws(Len(s.site_inds)) :
                  LET flagged == detect_prob_curve(s.site_inds, emissions,
                                                   det_table, scores)
                  IN  /\ last' = [Call("detect") EXCEPT
                                    !.operating = TRUE,
                                    !.visited = s.site_inds,
                                    !.probs = SiteProbs(s.site_inds, emissions,
                                                        det_table),
                                    !.scores = scores,
                                    !.dispatched = TRUE,
                                    !.flagged = flagged,
                                    !.emit_out = NoneList]
                      /\ emissions' = MarkDetected(emissions, Range(flagged))
           ELSE /\ last' = [Call("detect") EXCEPT !.operating = TRUE]
                /\ UNCHANGED emissions

\* a variant without the test for an empty site_inds: the sites surveyed,
\* none included, go through detect_prob_curve and to the dispatch object
detect_operating_untested ==
    LET s == sites_surveyed(site_queue, sites_per_timestep, find_cost, time,
                            site_cost)
    IN  /\ site_queue' = s.site_queue
        /\ find_cost' = s.find_cost
        /\ \E scores \in Draws(Len(s.site_inds)) :
              last' = [Call("detect") EXCEPT
                         !.operating = TRUE,
                         !.visited = s.site_inds,
                         !.probs = SiteProbs(s.site_inds, emissions, det_table),
                         !.scores = scores,
                         !.dispatched = TRUE,
                         !.flagged = detect_prob_curve(s.site_inds, emissions,
                                                       det_table, scores),
                         !.emit_out = NoneList]
        /\ UNCHANGED emissions

\* check_time held: survey, and dispatch when a site was surveyed
detect_operating ==
    LET s == sites_surveyed(site_queue, sites_per_timestep, find_cost, time,
                            site_cost)
    IN  /\ site_queue' = s.site_queue
        /\ find_cost' = s.find_cost
        /\ IF Len(s.site_inds) > 0
           THEN \E scores \in Draws(Len(s.site_inds)) :
                  last' = [Call("detect") EXCEPT
                             !.operating = TRUE,
                             !.visited = s.site_inds,
                             !.probs = SiteProbs(s.site_inds, emissions,
                                                 det_table),
                             !.scores = scores,
                             !.dispatched = TRUE,
                             !.flagged = detect_prob_curve(s.site_inds, emissions,
                                                           det_table, scores),
                             !.emit_out = NoneList]
           ELSE last' = [Call("detect") EXCEPT !.operating = TRUE]
        /\ UNCHANGED emissions

\* check_time did not hold: detect returns at once
detect_idle ==
    /\ last' = Call("detect")
    /\ UNCHANGED << site_queue, find_cost, emissions >>

\* a variant that does not enforce the operating hours
detect_unguarded ==
    /\ pc = "step"
    /\ pc' = "stepped"
    /\ detect_operating
    /\ UNCHANGED << config, sites_per_timestep, warned, ever_queued >>
    /\ UNCHANGED pipeline

detect ==
    /\ pc = "step"
    /\ pc' = "stepped"
    /\ IF check_time(time, ophrs, survey_interval)
       THEN detect_operating
       ELSE detect_idle
    /\ UNCHANGED << config, sites_per_timestep, warned, ever_queued >>
    /\ UNCHANGED pipeline

\* a variant that also queues the emission indexes it is given
action_emit(site_inds, emit_inds) ==
    LET added == IF emit_inds = NoneList THEN site_inds ELSE site_inds \o emit_inds
    IN  /\ pc = "step"
        /\ Len(site_queue) + Len(site_inds) <= MaxQueue
        /\ site_queue' = extend_site_queue(site_queue, added)
        /\ ever_queued' = ever_queued \cup Range(added)
        /\ last' = [Call("action") EXCEPT !.site_inds = site_inds]
        /\ UNCHANGED << pc, config, sites_per_timestep, warned, find_cost,
                        emissions >>
    /\ UNCHANGED pipeline

\* a variant that assigns the queue instead of extending it
action_assign(site_inds, emit_inds) ==
    /\ pc = "step"
    /\ Len(site_queue) + Len(site_inds) <= MaxQueue
    /\ site_queue' = site_inds
    /\ ever_queued' = ever_queued \cup Range(site_inds)
    /\ last' = [Call("action") EXCEPT !.site_inds = site_inds]
    /\ UNCHANGED << pc, config, sites_per_timestep, warned, find_cost, emissions >>
    /\ UNCHANGED pipeline

\* SiteSurvey.action, called by an LDAR program or another detection method
action(site_inds, emit_inds) ==
    /\ pc = "step"
    /\ Len(site_queue) + Len(site_inds) <= MaxQueue
    /\ site_queue' = extend_site_queue(site_queue, site_inds)
    /\ ever_queued' = ever_queued \cup Range(site_inds)
    /\ last' = [Call("action") EXCEPT !.site_inds = site_inds]
    /\ UNCHANGED << pc, config, sites_per_timestep, warned, find_cost, emissions >>
    /\ UNCHANGED pipeline

\* ------------------------------------------------------ the Emission store
\* the gas field's emission process appends a new, unresolved emission
add_emission(flux, site) ==
    /\ pc = "step"
    /\ emissions.n_em < MaxEm
    /\ emissions' = [n_em |-> emissions.n_em + 1,
                     flux |-> Append(emissions.flux, flux),
                     site_index |-> Append(emissions.site_index, site),
                     endtime |-> Append(emissions.endtime, Infty),
                     detected |-> Append(emissions.detected, FALSE)]
    /\ last' = Call("add")
    /\ UNCHANGED << pc, config, sites_per_timestep, warned, site_queue, find_cost,
                    ever_queued >>
    /\ UNCHANGED pipeline

\* a downstream repair resolves an emission: its end time is set, once
resolve(i) ==
    /\ pc = "stepped"
    /\ i \in 1 .. emissions.n_em
    /\ emissions.endtime[i] = Infty
    /\ emissions' = [emissions EXCEPT !.endtime[i] = current_time(time)]
    /\ last' = Call("resolve")
    /\ UNCHANGED << pc, config, sites_per_timestep, warned, site_queue, find_cost,
                    ever_queued >>
    /\ UNCHANGED pipeline

\* ------------------------------------------------------ the simulation loop
next_time ==
    /\ pc = "stepped"
    /\ time' = [time EXCEPT !.time_index = @ + 1]
    /\ pc' = IF time.time_index + 1 >= NSteps(time.delta_t) THEN "done" ELSE "step"
    /\ last' = Call("tick")
    /\ UNCHANGED << ophrs, survey_interval, sites_per_day, site_cost, det_table,
                    sites_per_timestep, warned, site_queue, find_cost, emissions,
                    ever_queued >>
    /\ UNCHANGED pipeline

Next ==
    \/ SiteSurvey_init
    \/ detect
    \/ \E site_inds \in ActionArgs, emit_inds \in EmitArgs :
          action(site_inds, emit_inds)
    \/ \E flux \in Fluxes, site \in Sites : add_emission(flux, site)
    \/ \E i \in 1 .. MaxEm : resolve(i)
    \/ next_time

Spec == Init /\ [][Next]_vars

\* a run of a method of sites_per_day 3 stepped every 18 hours, all day
InitThreeQuarterDay ==
    Constructing(Arguments(18, FullDay, None, 3, StepTable, AllSites))

SpecThreeQuarterDay == InitThreeQuarterDay /\ [][Next]_vars

\* the constructor alone, over the table of configurations
SpecInit == InitConstructions /\ [][SiteSurvey_init]_vars

\* ------------------------------------------------- two SiteSurvey objects
\* Objects A and B are stepped by one simulation: at each step detect is called
\* on each, in the order given. A list is an object of its own: "default" is the
\* list that the def statement of __init__ creates once as the default value
\* of site_queue (line 21), "given" is a list passed by the caller; an object
\* refers to one of them (self.site_queue = site_queue, line 55).
Names == {"A", "B"}
Repair == "repair"            \* a dispatch object that is not a SiteSurvey

Method(queue, spd, target) ==
    [site_queue |-> queue,
     sites_per_timestep |-> SitesPerTimestep(spd, FullDay, HoursPerDay),
     dispatch_object |-> target]

\* A, given every site, dispatches to B, which is constructed without site_queue
Chain(calls) ==
    [methods |-> [A |-> Method("given", NSites, "B"),
                  B |-> Method("default", 1, Repair)],
     lists |-> [given |-> AllSites, default |-> << >>],
     order |-> calls]

\* A and B are both constructed without site_queue
Twins ==
    [methods |-> [A |-> Method("default", NSites, Repair),
                  B |-> Method("default", 1, Repair)],
     lists |-> [given |-> << >>, default |-> << >>],
     order |-> << "A", "B" >>]

Pipelines == { Chain(<< "A", "B" >>), Chain(<< "B", "A" >>), Twins }

\* an emission at site 0 alone
OneEmission ==
    [n_em |-> 1, flux |-> << 1 >>, site_index |-> << 0 >>, endtime |-> << Infty >>,
     detected |-> << FALSE >>]

InitPipeline ==
    /\ pc = "pipeline"
    /\ time = [delta_t |-> HoursPerDay, time_index |-> 0]
    /\ ophrs = FullDay
    /\ survey_interval = None
    /\ sites_per_day = NSites
    /\ site_cost = Arguments(HoursPerDay, FullDay, None, NSites, StepTable,
                             << >>).site_cost
    /\ det_table = StepTable
    /\ sites_per_timestep = 0
    /\ warned = FALSE
    /\ site_queue = << >>
    /\ find_cost = [i \in 0 .. (NSteps(HoursPerDay) - 1) |-> 0]
    /\ emissions = OneEmission
    /\ ever_queued = {}
    /\ last = Call("none")
    /\ \E p \in Pipelines : /\ methods = p.methods
                            /\ lists = p.lists
                            /\ order = p.order
    /\ turn = 1
    /\ sent = << >>
    /\ seen = << >>
    /\ called = [op |-> "none"]

\* the record of a call on object who, made when the lists were as in before
CallOn(op, who, before) ==
    [op |-> op, who |-> who, visited |-> << >>, dispatched |-> FALSE,
     flagged |-> << >>, before |-> before]

Stamped(site_inds) ==
    [i \in 1 .. Len(site_inds) |-> [site |-> site_inds[i], step |-> time.time_index]]

\* a variant of action that puts the sites at the front of the queue
Receive_front(heap, target, site_inds) ==
    IF target \in Names
    THEN [heap EXCEPT ![methods[target].site_queue] = site_inds \o @]
    ELSE heap

\* target.action(site_inds, None): a SiteSurvey extends the list its site_queue
\* refers to; the repair method keeps no queue
Receive(heap, target, site_inds) ==
    IF target \in Names
    THEN [heap EXCEPT ![methods[target].site_queue] =
                          extend_site_queue(@, site_inds)]
    ELSE heap

\* detect of the object whose turn it is
pipeline_detect ==
    /\ pc = "pipeline"
    /\ turn <= Len(order)
    /\ LET who == order[turn]
           m == methods[who]
       IN  IF check_time(time, ophrs, survey_interval)
           THEN LET s == sites_surveyed(lists[m.site_queue], m.sites_per_timestep,
                                        find_cost, time, site_cost)
                    removed == [lists EXCEPT ![m.site_queue] = s.site_queue]
                IN  /\ find_cost' = s.find_cost
                    /\ seen' = IF who = "B" THEN seen \o Stamped(s.site_inds)
                               ELSE seen
                    /\ IF Len(s.site_inds) > 0
                       THEN \E scores \in Draws(Len(s.site_inds)) :
                              LET flagged == detect_prob_curve(s.site_inds, emissions,
                                                               det_table, scores)
                              IN  /\ lists' = Receive(removed, m.dispatch_object,
                                                      flagged)
                                  /\ sent' = IF m.dispatch_object = "B"
                                             THEN sent \o Stamped(flagged)
                                             ELSE sent
                                  /\ called' = [CallOn("detect", who, lists) EXCEPT
                                                  !.visited = s.site_inds,
                                                  !.dispatched = TRUE,
                                                  !.flagged = flagged]
                       ELSE /\ lists' = removed
                            /\ sent' = sent
                            /\ called' = CallOn("detect", who, lists)
           ELSE /\ called' = CallOn("detect", who, lists)
                /\ UNCHANGED << find_cost, lists, sent, seen >>
    /\ turn' = turn + 1
    /\ UNCHANGED << time, methods, order, single >>

\* who.action(site_inds, None), called from outside the pipeline before the
\* detect calls of a step, on an object that is no other object's target
pipeline_action(who, site_inds) ==
    /\ pc = "pipeline"
    /\ turn = 1
    /\ \A n \in Names : methods[n].dispatch_object # who
    /\ Len(lists[methods[who].site_queue]) + Len(site_inds) <= MaxQueue
    /\ lists' = Receive(lists, who, site_inds)
    /\ called' = CallOn("action", who, lists)
    /\ UNCHANGED << time, find_cost, methods, order, turn, sent, seen, single >>

pipeline_next_time ==
    /\ pc = "pipeline"
    /\ turn = Len(order) + 1
    /\ time.time_index + 1 < NSteps(time.delta_t)
    /\ time' = [time EXCEPT !.time_index = @ + 1]
    /\ turn' = 1
    /\ called' = [op |-> "tick"]
    /\ UNCHANGED << find_cost, methods, lists, order, sent, seen, single >>

NextPipeline ==
    \/ pipeline_detect
    \/ \E who \in Names, site_inds \in ActionArgs : pipeline_action(who, site_inds)
    \/ pipeline_next_time

SpecPipeline == InitPipeline /\ [][NextPipeline]_vars

\* ------------------------------------------------------ a run without end
\* The simulation steps on for ever. The clock is kept within one period, the
\* number of steps after which the times of day repeat, and find_cost holds
\* the entries of the steps of the period: the entry of a step that begins is
\* 0, as every entry of the accumulator is before its step.
Period(delta_t) ==
    CHOOSE n \in 1 .. HoursPerDay :
        /\ (n * delta_t) % HoursPerDay = 0
        /\ \A k \in 1 .. (n - 1) : (k * delta_t) % HoursPerDay # 0

EndlessScenarios ==
    { Arguments(24, FullDay, None, NSites, StepTable, AllSites),
      Arguments(12, DayShift, None, 1, StepTable, AllSites),
      Arguments(18, FullDay, None, 1, StepTable, AllSites) }

InitEndless ==
    \E args \in EndlessScenarios :
        /\ pc = "new"
        /\ time = [delta_t |-> args.delta_t, time_index |-> 0]
        /\ ophrs = args.ophrs
        /\ survey_interval = args.survey_interval
        /\ sites_per_day = args.sites_per_day
        /\ site_cost = args.site_cost
        /\ det_table = args.detection
        /\ site_queue = args.site_queue
        /\ sites_per_timestep = 0
        /\ warned = FALSE
        /\ find_cost = [i \in 0 .. (Period(args.delta_t) - 1) |-> 0]
        /\ emissions = EmptyEmissions
        /\ ever_queued = Range(site_queue)
        /\ last = Call("none")
        /\ NoPipeline

endless_next_time ==
    /\ pc = "stepped"
    /\ pc' = "step"
    /\ LET i == (time.time_index + 1) % Period(time.delta_t)
       IN  /\ time' = [time EXCEPT !.time_index = i]
           /\ find_cost' = [find_cost EXCEPT ![i] = 0]
    /\ last' = Call("tick")
    /\ UNCHANGED << ophrs, survey_interval, sites_per_day, site_cost, det_table,
                    sites_per_timestep, warned, site_queue, emissions, ever_queued >>
    /\ UNCHANGED pipeline

NextEndless ==
    \/ SiteSurvey_init
    \/ detect
    \/ \E site_inds \in ActionArgs, emit_inds \in EmitArgs :
          action(site_inds, emit_inds)
    \/ endless_next_time

\* the simulation loop calls detect at every step and then steps the clock
SpecEndless ==
    /\ InitEndless
    /\ [][NextEndless]_vars
    /\ WF_vars(detect)
    /\ WF_vars(endless_next_time)

\* ================================================================= claims
Operating == check_time(time, ophrs, survey_interval)
Surveyed == Len(site_queue) - Len(site_queue')      \* sites removed by a step
ActiveSites(em) ==
    { em.site_index[i] : i \in { j \in 1 .. em.n_em : em.endtime[j] = Infty } }
NoCost == [i \in 0 .. (NSteps(time.delta_t) - 1) |-> 0]

\* C1: a detect call at a time step where check_time is false changes no entry
\* of the cost accumulator, draws no random number, leaves site_queue as it
\* was and does not call dispatch_object.action.
C1_IdleDetectIsNoOp ==
    [][(last'.op = "detect" /\ ~Operating)
        => /\ find_cost' = find_cost
           /\ site_queue' = site_queue
           /\ last'.scores = << >>
           /\ ~last'.dispatched]_vars

\* a detect call outside the operating hours with sites waiting and capacity
C1_Witness ==
    /\ last.op = "detect"
    /\ ~last.operating
    /\ site_queue # << >>
    /\ sites_per_timestep >= 1

\* C2: in an operating step the cost added at the current time index is
\* k * site_cost, k the number of sites removed from the queue (the sites
\* surveyed), whatever the draws flag.
C2_CostIsSitesTimesSiteCost ==
    [][(last'.op = "detect" /\ Operating)
        => /\ Len(last'.visited) = Surveyed
           /\ find_cost'[time.time_index] =
                  find_cost[time.time_index] + Surveyed * site_cost]_vars

\* a step that surveyed a queue shorter than its capacity and flagged nothing
C2_Witness ==
    /\ last.op = "detect"
    /\ last.operating
    /\ Len(last.visited) >= 1
    /\ Len(last.visited) < sites_per_timestep
    /\ last.flagged = << >>
    /\ find_cost[time.time_index] = Len(last.visited) * site_cost

C4_ReportedWasQueued ==
    last.dispatched => Range(last.flagged) \subseteq ever_queued

\* a site reported while another site has never been queued
C4_Witness ==
    /\ last.dispatched
    /\ last.flagged # << >>
    /\ Sites \ ever_queued # {}

\* C5: action appends its site indexes to the back of site_queue in the order
\* given; the entries already there stay, and the emission indexes play no part.
C5_ActionAppends ==
    [][last'.op = "action"
        => site_queue' = site_queue \o last'.site_inds]_vars

\* the queue built by action calls alone, the last of them adding one site
\* behind two
C5_Witness ==
    /\ last.op = "action"
    /\ Len(last.site_inds) = 1
    /\ time.time_index = 0
    /\ ophrs = DayShift
    /\ Len(site_queue) = 3
    /\ site_queue[3] = last.site_inds[1]
    /\ site_queue[1] # site_queue[2]

\* C6: action with an empty site list leaves site_queue as it was.
C6_EmptyActionKeepsQueue ==
    [][(last'.op = "action" /\ last'.site_inds = << >>)
        => site_queue' = site_queue]_vars

\* an empty action on a queue that holds sites
C6_Witness ==
    /\ last.op = "action"
    /\ last.site_inds = << >>
    /\ site_queue # << >>

\* C7: a detect call leaves the Emission store as it was: n_em and every
\* emission's flux, site index, end time and detection flag.
C7_DetectKeepsEmissions ==
    [][last'.op = "detect" => emissions' = emissions]_vars

\* a detect call that flagged the site of a stored emission
C7_Witness ==
    /\ last.op = "detect"
    /\ last.dispatched
    /\ emissions.n_em > 0
    /\ \E i \in 1 .. emissions.n_em :
          emissions.site_index[i] \in Range(last.flagged)

\* C8: end to end (every site queued, sites_per_day the number of sites, full
\* day ophrs, delta_t = 1, a table of 1.0 for a positive flux sum): the first
\* detect step flags exactly the sites with an active emission, whatever the
\* draws, and charges the number of sites times site_cost.
\* EndToEnd: the state after that step, the seeded emissions all unresolved.
EndToEnd ==
    /\ time.delta_t = HoursPerDay
    /\ ophrs = FullDay
    /\ survey_interval = None
    /\ sites_per_day = NSites
    /\ det_table = StepTable
    /\ time.time_index = 0
    /\ last.op = "detect"
    /\ last.visited = AllSites
    /\ emissions.n_em >= 1
    /\ \A i \in 1 .. emissions.n_em : emissions.endtime[i] = Infty

C8_EndToEndFlagsActiveSites ==
    EndToEnd => /\ Range(last.flagged) = ActiveSites(emissions)
                /\ find_cost[0] = NSites * site_cost

\* C9: sites_per_timestep is a function of (sites_per_day, ophrs, delta_t) set
\* by the constructor.  With delta_t = Whole days + Frac hours and a window of
\* Span hours, sites_per_day * (Whole + min(1, Frac / Span)) is the fraction
\* ValueNum / ValueDen (a zero Span with Frac > 0 divides to +inf, so the
\* minimum is 1).
Whole == time.delta_t \div HoursPerDay
Frac == time.delta_t % HoursPerDay
Span == ophrs.end - ophrs.begin
ValueNum ==
    IF Span > 0 THEN (IF Frac >= Span THEN sites_per_day * (Whole + 1)
                                      ELSE sites_per_day * (Whole * Span + Frac))
    ELSE IF Span < 0 THEN sites_per_day * (Whole * (0 - Span) - Frac)
    ELSE sites_per_day * (Whole + 1)
ValueDen ==
    IF Span > 0 THEN (IF Frac >= Span THEN 1 ELSE Span)
    ELSE IF Span < 0 THEN 0 - Span
    ELSE 1

C10_EmptyWindowNeverOperates ==
    ophrs.begin = ophrs.end =>
        /\ pc # "error"
        /\ find_cost = NoCost
        /\ (last.op = "detect" => /\ ~last.operating
                                  /\ last.visited = << >>
                                  /\ ~last.dispatched)

\* the sites of visited whose draw is at most their probability, in order
FlaggedBy(visited, scores, probs) ==
    LET F[i \in 0 .. Len(visited)] ==
            IF i = 0 THEN << >>
            ELSE IF scores[i] <= probs[i] THEN Append(F[i - 1], visited[i])
            ELSE F[i - 1]
    IN  F[Len(visited)]

\* C11: an operating step that surveys at least one site makes one uniform
\* draw per site surveyed, flags a site iff its draw is at most its looked-up
\* probability, and calls dispatch_object.action once, with the flagged sites
\* in survey order and None.
C11_OneDrawPerSiteDispatchFlagged ==
    [][(last'.op = "detect" /\ Operating /\ Surveyed >= 1)
        => /\ Len(last'.scores) = Surveyed
           /\ Len(last'.probs) = Surveyed
           /\ last'.dispatched
           /\ last'.flagged = FlaggedBy(last'.visited, last'.scores, last'.probs)
           /\ last'.emit_out = NoneList]_vars

\* two sites surveyed, the first not flagged, the second flagged on a draw
\* equal to its probability
C11_Witness ==
    /\ last.op = "detect"
    /\ Len(last.visited) = 2
    /\ last.scores[1] > last.probs[1]
    /\ last.scores[2] = last.probs[2]
    /\ last.flagged = << last.visited[2] >>

\* C12: an operating step with no candidate site (site_queue empty, or no
\* site selected) looks up no probability, draws nothing, charges nothing,
\* does not call dispatch_object.action and returns normally.
C12_EmptyCandidatesNoOp ==
    [][(last'.op = "detect" /\ Operating
          /\ Min2(sites_per_timestep, Len(site_queue)) <= 0)
        => /\ last'.probs = << >>
           /\ last'.scores = << >>
           /\ ~last'.dispatched
           /\ find_cost' = find_cost
           /\ site_queue' = site_queue
           /\ pc' = "stepped"]_vars

\* an operating step of a method with capacity on an empty queue
C12_Witness ==
    /\ last.op = "detect"
    /\ last.operating
    /\ sites_per_timestep >= 1
    /\ site_queue = << >>
    /\ last.visited = << >>
    /\ ~last.dispatched

\* C13: the emission variable of a site surveyed is summed over the active
\* emissions of the site only (index below n_em, end time not reached): a
\* resolved emission adds nothing to it.
RECURSIVE ActiveFlux(_, _, _)
ActiveFlux(em, site_ind, i) ==
    IF i > em.n_em THEN 0
    ELSE (IF em.site_index[i] = site_ind /\ em.endtime[i] > current_time(time)
          THEN em.flux[i] ELSE 0)
         + ActiveFlux(em, site_ind, i + 1)

C13_OnlyActiveEmissionsScore ==
    (last.op = "detect" /\ last.dispatched)
        => \A i \in 1 .. Len(last.visited) :
              last.probs[i] =
                  empirical_interpolator(det_table.points, det_table.probs,
                                         ActiveFlux(emissions, last.visited[i], 1))

Constructed == pc \in {"step", "stepped"}

\* C14 as stated: a constructed method has warned iff sites_per_timestep is 0
\* while sites_per_day > 0, and then no step surveys a site, charges a cost or
\* shortens site_queue.
C14_WarnsIffZero ==
    [][Constructed
        => /\ warned <=> (sites_per_timestep = 0 /\ sites_per_day > 0)
           /\ (sites_per_timestep = 0 /\ sites_per_day > 0)
                 => /\ Len(site_queue') >= Len(site_queue)
                    /\ find_cost' = find_cost
                    /\ last'.visited = << >>]_vars

\* C14, amended: a constructed method has warned iff sites_per_timestep is
\* below 1 (0, or negative when end < begin) while sites_per_day > 0, and
\* then no step surveys a site, charges a cost or shortens site_queue.
C14_WarnsIffBelowOne ==
    [][Constructed
        => /\ warned <=> (sites_per_timestep < 1 /\ sites_per_day > 0)
           /\ warned
                 => /\ Len(site_queue') >= Len(site_queue)
                    /\ find_cost' = find_cost
                    /\ last'.visited = << >>]_vars

\* a warned method of sites_per_timestep 0 has run an operating step on a
\* queue that holds sites
C14_Witness ==
    /\ warned
    /\ sites_per_timestep = 0
    /\ sites_per_day > 0
    /\ last.op = "detect"
    /\ last.operating
    /\ site_queue # << >>
    /\ last.visited = << >>
    /\ find_cost = NoCost

\* sites surveyed at step i, as charged by sites_surveyed (site_cost each)
SurveyedAt(i) == find_cost[i] \div site_cost

RECURSIVE SurveyedOnDay(_, _)
SurveyedOnDay(d, i) ==
    IF i >= NSteps(time.delta_t) THEN 0
    ELSE (IF (i * time.delta_t) \div HoursPerDay = d THEN SurveyedAt(i) ELSE 0)
         + SurveyedOnDay(d, i + 1)

\* C17: with delta_t at most one day, the sites surveyed at the steps of any
\* one day number at most sites_per_day, whatever the ophrs window.
C17_DailyThroughputBounded ==
    (pc \in {"step", "stepped", "done"} /\ time.delta_t <= HoursPerDay)
        => \A d \in 0 .. (EndTime \div HoursPerDay) :
              SurveyedOnDay(d, 0) <= sites_per_day

Other(who) == IF who = "A" THEN "B" ELSE "A"
QueueOf(heap, who) == heap[methods[who].site_queue]
Called == called.op \in {"detect", "action"}

\* C15: two objects constructed without site_queue have independent queues: a
\* call on one of them leaves the queue of the other as it was.
C15_DefaultQueuesIndependent ==
    (/\ Called
     /\ methods["A"].site_queue = "default"
     /\ methods["B"].site_queue = "default")
        => QueueOf(lists, Other(called.who)) = QueueOf(called.before, Other(called.who))

\* C16: when A dispatches to B, the sites A flags in a detect call are at the
\* back of B's queue when the call returns; B surveys the sites A passed it, in
\* that order, each at a later step than A flagged it, or at the same step
\* when B's detect is called after A's.
Place(who) == CHOOSE i \in 1 .. Len(order) : order[i] = who
After(b, a) ==
    \/ b.step > a.step
    \/ b.step = a.step /\ Place("B") > Place("A")

C16_TargetSurveysAfterFlag ==
    (pc = "pipeline" /\ methods["A"].dispatch_object = "B")
        => /\ (called.op = "detect" /\ called.who = "A" /\ called.dispatched)
                 => QueueOf(lists, "B") = QueueOf(called.before, "B") \o called.flagged
           /\ Len(seen) <= Len(sent)
           /\ \A i \in 1 .. Len(seen) : /\ seen[i].site = sent[i].site
                                         /\ After(seen[i], sent[i])

\* B, called before A, surveys at step 1 the site A flagged at step 0, while
\* another site A flagged waits in B's queue
C16_Witness ==
    /\ pc = "pipeline"
    /\ methods["A"].dispatch_object = "B"
    /\ order = << "B", "A" >>
    /\ called.op = "detect"
    /\ called.who = "B"
    /\ Len(seen) = 1
    /\ seen[1].step = sent[1].step + 1
    /\ Len(sent) > 1
    /\ QueueOf(lists, "B") # << >>

\* C19: a detect call changes find_cost at index time.time_index only, where
\* it adds the cost of the sites surveyed to the value already there.
C19_CostAddedAtCurrentIndex ==
    [][called'.op = "detect"
        => \A i \in DOMAIN find_cost :
              find_cost'[i] = find_cost[i]
                  + (IF i = time.time_index
                     THEN Len(called'.visited) * site_cost ELSE 0)]_vars

\* the second detect of a step has added its cost to that of the first
C19_Witness ==
    /\ called.op = "detect"
    /\ turn = Len(order) + 1
    /\ Len(called.visited) >= 1
    /\ find_cost[time.time_index] > Len(called.visited) * site_cost

\* C18: if sites_per_timestep >= 1, detect operates at infinitely many steps
\* and action is called finitely often, then every site in site_queue is
\* surveyed later on, and site_queue becomes empty and stays empty.
OperatingStep == sites_per_timestep >= 1 /\ last.op = "detect" /\ last.operating
SurveyedSite(site) == last.op = "detect" /\ site \in Range(last.visited)

=============================================================================
